---- MODULE Spec2Model ----
(***************************************************************************)
(* A model of django_tables/rows.py: BoundRow (the per-row accessor) and   *)
(* BoundRows (the per-table row collection).                               *)
(*                                                                         *)
(* Python values are records [t |-> type tag, v |-> payload]; two values   *)
(* are compared tag first.  Strings that the code concatenates or tests    *)
(* with startswith are sequences of tokens, concatenation being \o.        *)
(***************************************************************************)
EXTENDS Integers, Sequences, FiniteSets

\* table:  the table a BoundRow / BoundRows refers to (columns, class
\*         attributes, data source, pagination state)
\* row:    the record of the BoundRow
\* op:     the operation last called, with its key or item
\* result: what that operation returned or raised
\* calls:  the calls it made to its collaborators (render hooks for a row,
\*         reads of the data source for the rows)
\* gens:   the generators and iterators handed out so far
\* table0: the table as it was at construction
VARIABLES table, row, op, result, calls, gens, table0

vars == <<table, row, op, result, calls, gens, table0>>

(* ------------------------------ bounds -------------------------------- *)

\* generators (iterators) a client holds at once
MaxGens == 2
\* records in the data source
MaxData == 2
\* integer keys range over -MaxIdx .. MaxIdx
MaxIdx == 2
\* depth at which the interpreter gives up on a recursion
RecursionLimit == 20

(* --------------------------- Python values ---------------------------- *)

None == [t |-> "None", v |-> <<>>]
PyInt(i) == [t |-> "int", v |-> i]
PyStr(s) == [t |-> "str", v |-> s]
PyBool(b) == [t |-> "bool", v |-> b]
PyList(s) == [t |-> "list", v |-> s]
PyIter(g) == [t |-> "iterator", v |-> g]

PyEq(x, y) == x.t = y.t /\ x.v = y.v

\* an optional integer: a slice bound that may be None
NoneIdx == [some |-> FALSE, i |-> 0]
Idx(i) == [some |-> TRUE, i |-> i]

Min(a, b) == IF a < b THEN a ELSE b
Max(a, b) == IF a > b THEN a ELSE b

\* how a call ends: it returns a value or raises an exception with a message
Return(v) == [kind |-> "return", val |-> v, exc |-> "", msg |-> <<>>]
Raise(e, m) == [kind |-> "raise", val |-> None, exc |-> e, msg |-> m]
NoResult == [kind |-> "none", val |-> None, exc |-> "", msg |-> <<>>]

\* str.startswith, on token sequences
StartsWith(s, prefix) ==
    /\ Len(s) >= Len(prefix)
    /\ SubSeq(s, 1, Len(prefix)) = prefix

(* ------------------- the table and its collaborators ------------------ *)

TableId == "table"
TableClass == "SimpleTable"
ColumnClass == "Column"

KwNames == {"value", "record", "column", "bound_column", "bound_row", "table"}

\* a render hook: the name of its function, the keywords its signature
\* accepts, and what its body does
Hook(fname, accepts, body) == [fname |-> fname, accepts |-> accepts, body |-> body]

\* the column class's render: def render(self, value, **kwargs) in its
\* variants
ColumnRenders ==
    { Hook(<<"render">>, KwNames, "ok"),
      Hook(<<"render">>, {"value"}, "ok"),
      Hook(<<"render">>, KwNames, "TypeError"),
      Hook(<<"render">>, KwNames, "ValueError") }

\* the table class's attributes: none, or a render_a in its variants (the
\* last one is a function named render bound as render_a)
NoAttrs == [n \in {} |-> None]
TableAttrs ==
    {NoAttrs} \cup
    { [n \in {<<"render_", "a">>} |-> h] :
        h \in { Hook(<<"render_", "a">>, KwNames, "ok"),
                Hook(<<"render_", "a">>, {"value"}, "ok"),
                Hook(<<"render_", "a">>, KwNames, "TypeError"),
                Hook(<<"render">>, {"value"}, "ok") } }

\* records of the data source, keyed by accessor
Records ==
    { [a |-> None,     x |-> PyInt(0)],
      [a |-> PyStr(""), x |-> None],
      [a |-> PyInt(1),  x |-> PyInt(1)] }

\* a bound column: column a reads record key a and has a default, column b
\* reads record key x (its name is not its accessor) and has none
BoundColumn(name, render) ==
    [name |-> name,
     accessor |-> IF name = "a" THEN "a" ELSE "x",
     default |-> IF name = "a" THEN PyStr("n/a") ELSE None,
     column |-> [cls |-> ColumnClass, render |-> render]]

ColumnOrders == {<<>>, <<"a">>, <<"a", "b">>, <<"b", "a">>}

Table(names, render, attrs, data, page) ==
    [columns |-> [i \in 1..Len(names) |-> BoundColumn(names[i], render)],
     attrs |-> attrs,
     data |-> data,
     page |-> page]

NoPage == [has |-> FALSE, object_list |-> <<>>]
Page(l) == [has |-> TRUE, object_list |-> l]

\* BoundRow(table, record)
BoundRow(tbl, record) == [t |-> "BoundRow", v |-> [table |-> tbl, record |-> record]]

(* --------------------------- keys and items --------------------------- *)

StrKey(s) == [kind |-> "str", s |-> s, i |-> 0]
IntKey(i) == [kind |-> "int", s |-> "", i |-> i]

RowKeys == {StrKey(s) : s \in {"a", "b", "c"}} \cup {IntKey(i) : i \in -MaxIdx..MaxIdx}

ColumnNames(tbl) == {tbl.columns[i].name : i \in 1..Len(tbl.columns)}

\* table.columns[key]: by position or by name
ColumnsGetItem(tbl, key) ==
    IF key.kind = "int"
    THEN IF 0 <= key.i /\ key.i < Len(tbl.columns)
         THEN Return(tbl.columns[key.i + 1])
         ELSE Raise("IndexError", <<"list index out of range">>)
    ELSE IF key.s \in ColumnNames(tbl)
         THEN Return(CHOOSE c \in {tbl.columns[i] : i \in 1..Len(tbl.columns)} :
                        c.name = key.s)
         ELSE Raise("KeyError", <<key.s>>)

\* bound_column.accessor.resolve(record)
Resolve(accessor, record) == record[accessor]

\* getattr(table, name, default) and hasattr(table, name)
HasAttr(tbl, name) == name \in DOMAIN tbl.attrs
GetAttr(tbl, name, default) == IF HasAttr(tbl, name) THEN tbl.attrs[name] ELSE default

\* render(**kwargs): the interpreter rejects a keyword the signature does
\* not accept, then the body runs
Rendered(hook, kwargs) == [t |-> "rendered", v |-> [hook |-> hook, kw |-> kwargs]]

CallHook(hook, kwargs) ==
    IF ~(DOMAIN kwargs \subseteq hook.accepts)
    THEN Raise("TypeError",
               hook.fname \o <<"() got an unexpected keyword", " argument">>)
    ELSE IF hook.body = "ok" THEN Return(Rendered(hook, kwargs))
    ELSE IF hook.body = "TypeError"
         THEN Raise("TypeError", <<"unsupported operand type(s)">>)
    ELSE Raise("ValueError", <<"invalid literal">>)

(* ------------------------------ BoundRow ------------------------------ *)

\* 'value': raw if raw is not None else bound_column.default
CellValueTruthy(raw, default) ==
    IF raw.t # "None" /\ ~PyEq(raw, PyInt(0)) /\ ~PyEq(raw, PyStr("")) THEN raw
    ELSE default

CellValue(raw, default) == IF raw.t # "None" THEN raw ELSE default

Kwargs(tbl, record, bound_column) ==
    [value |-> CellValue(Resolve(bound_column.accessor, record), bound_column.default),
     record |-> record,
     column |-> bound_column.column,
     bound_column |-> bound_column,
     bound_row |-> BoundRow(TableId, record),
     table |-> TableId]

\* 'render_' + bound_column.name
RenderFOO(bound_column) == <<"render_">> \o <<bound_column.name>>

\* the except TypeError clause: the augmented error when the message starts
\* with 'render() got an unexpected keyword'; any other TypeError leaves
\* the try statement, and the function ends without a return statement
ExceptTypeError(tbl, bound_column, e) ==
    IF StartsWith(e.msg, <<"render", "() got an unexpected keyword">>)
    THEN LET render_FOO == RenderFOO(bound_column)
             cls == IF HasAttr(tbl, render_FOO) THEN TableClass
                    ELSE bound_column.column.cls
             meth == IF HasAttr(tbl, render_FOO) THEN render_FOO ELSE <<"render">>
         IN Raise("TypeError",
                  e.msg \o <<". ">> \o <<"Did you forget to add **kwargs to ", cls, ".">>
                        \o meth \o <<"() ?">>)
    ELSE Return(None)

\* the failure of table.columns[name] leaves __getitem__ before any hook
LookupSwallowed(lk) == [out |-> Return(None), calls |-> <<>>]

LookupFailed(lk) == [out |-> lk, calls |-> <<>>]

\* BoundRow.__getitem__: the outcome and the hook calls made
BoundRow_getitem(tbl, record, key) ==
    LET lk == ColumnsGetItem(tbl, key)
    IN IF lk.kind = "raise" THEN LookupFailed(lk)
       ELSE LET bound_column == lk.val
                kwargs == Kwargs(tbl, record, bound_column)
                render == GetAttr(tbl, RenderFOO(bound_column),
                                  bound_column.column.render)
                r == CallHook(render, kwargs)
                call == [hook |-> render, kwargs |-> kwargs, outcome |-> r]
            IN [out |-> IF r.kind = "raise" /\ r.exc = "TypeError"
                        THEN ExceptTypeError(tbl, bound_column, r)
                        ELSE r,
                calls |-> <<call>>]

\* membership in table._columns: a column of that name exists
ColumnsContains(tbl, name) == name \in ColumnNames(tbl)

\* BoundRow.__contains__; `item in self` is answered by __contains__ of the
\* row again, until the interpreter stops the recursion
RECURSIVE BoundRow_contains(_, _, _, _)
BoundRow_contains(tbl, record, item, depth) ==
    IF item.t = "str" THEN Return(PyBool(ColumnsContains(tbl, item.v)))
    ELSE IF depth >= RecursionLimit
         THEN Raise("RuntimeError", <<"maximum recursion depth exceeded">>)
         ELSE BoundRow_contains(tbl, record, item, depth + 1)

(* ----------------------------- generators ----------------------------- *)

\* a generator or iterator object: what it runs over, how far it got, what
\* it has yielded so far and whether it is still live
Generator(kind) == [kind |-> kind, pos |-> 0, out |-> <<>>, status |-> "live"]

StopIteration == Raise("StopIteration", <<>>)

\* calling a generator function starts a new generator at its first line
NewGeneratorShared(gs, kind) ==
    IF gs = <<>> THEN Generator(kind)
    ELSE [Generator(kind) EXCEPT !.pos = gs[Len(gs)].pos]

NewGenerator(gs, kind) == Generator(kind)

\* BoundRow.__iter__, the key of the loop body: self[column.name]
IterKey(column) == StrKey(column.name)

\* one next() on the generator of BoundRow.__iter__: the generator's new
\* state and what next() gives the caller
BoundRow_iter_next(tbl, record, gen) ==
    IF gen.status # "live" THEN [gen |-> gen, out |-> StopIteration]
    ELSE IF gen.pos >= Len(tbl.columns)
         THEN [gen |-> [gen EXCEPT !.status = "stopped"], out |-> StopIteration]
         ELSE LET r == BoundRow_getitem(tbl, record, IterKey(tbl.columns[gen.pos + 1])).out
              IN IF r.kind = "return"
                 THEN [gen |-> [gen EXCEPT !.pos = @ + 1, !.out = Append(@, r.val)],
                       out |-> r]
                 ELSE [gen |-> [gen EXCEPT !.status = "raised"], out |-> r]

(* ----------------------------- BoundRows ------------------------------ *)

\* len(table.data)
DataLen(data) == Len(data)

\* slice.indices(len): the first index, the bound and the step of a slice
SliceIndices(key, n) ==
    LET step == IF key.step.some THEN key.step.i ELSE 1
        lower == IF step < 0 THEN -1 ELSE 0
        upper == IF step < 0 THEN n - 1 ELSE n
        clamp(b, dflt) ==
            IF ~b.some THEN dflt
            ELSE IF b.i < 0 THEN Max(b.i + n, lower) ELSE Min(b.i, upper)
    IN [start |-> clamp(key.start, IF step < 0 THEN upper ELSE lower),
        stop |-> clamp(key.stop, IF step < 0 THEN lower ELSE upper),
        step |-> step]

RECURSIVE SliceFrom(_, _, _, _)
SliceFrom(data, i, stop, step) ==
    IF (step > 0 /\ i >= stop) \/ (step < 0 /\ i <= stop) THEN <<>>
    ELSE <<data[i + 1]>> \o SliceFrom(data, i + step, stop, step)

\* table.data[key] for an integer or a slice, as a list answers it
DataGetItem(data, key) ==
    IF key.kind = "slice"
    THEN LET ix == SliceIndices(key, Len(data))
         IN Return(PyList(SliceFrom(data, ix.start, ix.stop, ix.step)))
    ELSE IF -Len(data) <= key.i /\ key.i < Len(data)
         THEN Return([t |-> "record",
                      v |-> data[(IF key.i < 0 THEN key.i + Len(data) ELSE key.i) + 1]])
         ELSE Raise("IndexError", <<"list index out of range">>)

\* what the loop body of all() yields for a record
AllItemBare(tbl, record) == [t |-> "record", v |-> record]

AllItem(tbl, record) == BoundRow(TableId, record)

\* one next() on the generator of BoundRows.all
BoundRows_all_next(tbl, gen) ==
    IF gen.status # "live" THEN [gen |-> gen, out |-> StopIteration]
    ELSE IF gen.pos >= Len(tbl.data)
         THEN [gen |-> [gen EXCEPT !.status = "stopped"], out |-> StopIteration]
         ELSE LET v == AllItem(tbl, tbl.data[gen.pos + 1])
              IN [gen |-> [gen EXCEPT !.pos = @ + 1, !.out = Append(@, v)],
                  out |-> Return(v)]

\* one next() on iter(table.page.object_list): the elements themselves
PageItem(tbl, record) == [t |-> "record", v |-> record]

PageIter_next(tbl, gen) ==
    IF gen.status # "live" THEN [gen |-> gen, out |-> StopIteration]
    ELSE IF gen.pos >= Len(tbl.page.object_list)
         THEN [gen |-> [gen EXCEPT !.status = "stopped"], out |-> StopIteration]
         ELSE LET v == PageItem(tbl, tbl.page.object_list[gen.pos + 1])
              IN [gen |-> [gen EXCEPT !.pos = @ + 1, !.out = Append(@, v)],
                  out |-> Return(v)]

\* BoundRows.page: whether it returns an iterator rather than None
PageReturnsIterIfNonEmpty(tbl) == tbl.page.has /\ tbl.page.object_list # <<>>

PageReturnsIter(tbl) == tbl.page.has

\* BoundRows.__len__, and count, which is the same function
BoundRows_len(tbl) == Return(PyInt(DataLen(tbl.data)))

\* the list built by the slice branch of BoundRows.__getitem__
RowListReversed(tbl, sel) ==
    [i \in 1..Len(sel) |-> BoundRow(TableId, sel[Len(sel) + 1 - i])]

RowList(tbl, sel) == [i \in 1..Len(sel) |-> BoundRow(TableId, sel[i])]

\* BoundRows.__getitem__: the outcome and the reads of the data source
BoundRows_getitem(tbl, key) ==
    IF key.kind = "slice"
    THEN LET d == DataGetItem(tbl.data, key)
         IN [out |-> Return(PyList(RowList(tbl, d.val.v))), calls |-> <<key>>]
    ELSE IF key.kind = "int"
    THEN LET d == DataGetItem(tbl.data, key)
         IN [out |-> IF d.kind = "raise" THEN d
                     ELSE Return(BoundRow(TableId, d.val.v)),
             calls |-> <<key>>]
    ELSE [out |-> Raise("TypeError", <<"Key must be a slice or integer.">>),
          calls |-> <<>>]

(* ------------------------- inputs of the actions ---------------------- *)

RowsKey(kind, i, start, stop, step) ==
    [kind |-> kind, i |-> i, start |-> start, stop |-> stop, step |-> step]

SliceBounds == {NoneIdx} \cup {Idx(i) : i \in -MaxIdx..MaxIdx}
SliceSteps == {NoneIdx, Idx(2), Idx(-1)}

RowsKeys ==
    {RowsKey("slice", 0, a, b, c) : a \in SliceBounds, b \in SliceBounds, c \in SliceSteps}
    \cup {RowsKey("int", i, NoneIdx, NoneIdx, NoneIdx) : i \in -(MaxIdx + 1)..MaxIdx}
    \cup {RowsKey(k, 0, NoneIdx, NoneIdx, NoneIdx) : k \in {"str", "None"}}

NoKey == RowsKey("none", 0, NoneIdx, NoneIdx, NoneIdx)

\* the values a row renders, where the hook returns
RenderedValues(tbl, record) ==
    {BoundRow_getitem(tbl, record, StrKey(n)).out.val : n \in
        {m \in ColumnNames(tbl) : BoundRow_getitem(tbl, record, StrKey(m)).out.kind = "return"}}

ContainsItems(tbl, record) ==
    {PyStr(s) : s \in {"a", "b", "c"}} \cup {PyInt(1)} \cup RenderedValues(tbl, record)

Op(name, key, item, g) == [name |-> name, key |-> key, item |-> item, g |-> g]

SeqsUpTo(S, n) == UNION {[1..k -> S] : k \in 0..n}

(* ------------------------------- actions ------------------------------ *)

\* row[key]
GetItem(key) ==
    LET r == BoundRow_getitem(table, row, key)
    IN /\ op' = Op("row.getitem", key, None, 0)
       /\ result' = r.out
       /\ calls' = r.calls
       /\ UNCHANGED <<table, row, gens, table0>>

\* item in row
Contains(item) ==
    /\ op' = Op("row.contains", StrKey(""), item, 0)
    /\ result' = BoundRow_contains(table, row, item, 0)
    /\ calls' = <<>>
    /\ UNCHANGED <<table, row, gens, table0>>

\* iter(row)
Iter ==
    /\ Len(gens) < MaxGens
    /\ gens' = Append(gens, NewGenerator(gens, "row"))
    /\ op' = Op("row.iter", StrKey(""), None, Len(gens) + 1)
    /\ result' = Return(PyIter(Len(gens) + 1))
    /\ calls' = <<>>
    /\ UNCHANGED <<table, row, table0>>

\* next(g) for an iterator g of the row
Next_row(g) ==
    /\ gens[g].kind = "row"
    /\ LET n == BoundRow_iter_next(table, row, gens[g])
       IN /\ gens' = [gens EXCEPT ![g] = n.gen]
          /\ result' = n.out
    /\ op' = Op("row.next", StrKey(""), None, g)
    /\ calls' = <<>>
    /\ UNCHANGED <<table, row, table0>>

\* rows.all() and iter(rows), which returns self.all()
All(name) ==
    /\ Len(gens) < MaxGens
    /\ gens' = Append(gens, NewGenerator(gens, "all"))
    /\ op' = Op(name, NoKey, None, Len(gens) + 1)
    /\ result' = Return(PyIter(Len(gens) + 1))
    /\ calls' = <<>>
    /\ UNCHANGED <<table, row, table0>>

\* next(g) for a generator g of all()
Next_all(g) ==
    /\ gens[g].kind = "all"
    /\ LET n == BoundRows_all_next(table, gens[g])
       IN /\ gens' = [gens EXCEPT ![g] = n.gen]
          /\ result' = n.out
    /\ op' = Op("rows.next", NoKey, None, g)
    /\ calls' = <<>>
    /\ UNCHANGED <<table, row, table0>>

\* rows.page() where the table has no page attribute
Page_none ==
    /\ ~PageReturnsIter(table)
    /\ op' = Op("rows.page", NoKey, None, 0)
    /\ result' = Return(None)
    /\ calls' = <<>>
    /\ UNCHANGED <<table, row, gens, table0>>

\* rows.page() where it has one: iter(self.table.page.object_list)
Page_iter ==
    /\ PageReturnsIter(table)
    /\ Len(gens) < MaxGens
    /\ gens' = Append(gens, Generator("page"))
    /\ op' = Op("rows.page", NoKey, None, Len(gens) + 1)
    /\ result' = Return(PyIter(Len(gens) + 1))
    /\ calls' = <<>>
    /\ UNCHANGED <<table, row, table0>>

\* next(g) for an iterator g that page() returned
Next_page(g) ==
    /\ gens[g].kind = "page"
    /\ LET n == PageIter_next(table, gens[g])
       IN /\ gens' = [gens EXCEPT ![g] = n.gen]
          /\ result' = n.out
    /\ op' = Op("page.next", NoKey, None, g)
    /\ calls' = <<>>
    /\ UNCHANGED <<table, row, table0>>

\* len(rows) and rows.count()
LenOrCount(name) ==
    /\ op' = Op(name, NoKey, None, 0)
    /\ result' = BoundRows_len(table)
    /\ calls' = <<>>
    /\ UNCHANGED <<table, row, gens, table0>>

\* rows[key]
RowsGetItem(key) ==
    LET r == BoundRows_getitem(table, key)
    IN /\ op' = Op("rows.getitem", key, None, 0)
       /\ result' = r.out
       /\ calls' = r.calls
       /\ UNCHANGED <<table, row, gens, table0>>

(* --------------------------- specifications --------------------------- *)

Quiet ==
    /\ result = NoResult
    /\ calls = <<>>
    /\ gens = <<>>
    /\ table0 = table

\* a row of a table, its columns and render hooks in every variant
Init ==
    /\ table \in {Table(names, render, attrs, <<>>, NoPage) :
                    names \in ColumnOrders, render \in ColumnRenders, attrs \in TableAttrs}
    /\ row \in Records
    /\ op = Op("none", StrKey(""), None, 0)
    /\ Quiet

Next ==
    \/ \E key \in RowKeys : GetItem(key)
    \/ \E item \in ContainsItems(table, row) : Contains(item)
    \/ Iter
    \/ \E g \in 1..Len(gens) : Next_row(g)

Spec == Init /\ [][Next]_vars

\* the rows of a table, its data source and pagination in every variant
PlainRender == Hook(<<"render">>, KwNames, "ok")

DataRecords == {r \in Records : r.a.t # "int"}

InitRows ==
    /\ \E data \in SeqsUpTo(DataRecords, MaxData) :
         \E page \in {NoPage} \cup {Page(SubSeq(data, 1, k)) : k \in 0..Len(data)} :
            table = Table(<<"a", "b">>, PlainRender, NoAttrs, data, page)
    /\ row = [a |-> None, x |-> None]
    /\ op = Op("none", NoKey, None, 0)
    /\ Quiet

NextRows ==
    \/ \E name \in {"rows.all", "rows.iter"} : All(name)
    \/ \E g \in 1..Len(gens) : Next_all(g)
    \/ Page_none
    \/ Page_iter
    \/ \E g \in 1..Len(gens) : Next_page(g)
    \/ \E name \in {"rows.len", "rows.count"} : LenOrCount(name)

SpecRows == InitRows /\ [][NextRows]_vars

\* indexing the rows of a table by every kind of key
InitIndex ==
    /\ \E data \in SeqsUpTo(DataRecords, MaxData) :
            table = Table(<<"a", "b">>, PlainRender, NoAttrs, data, NoPage)
    /\ row = [a |-> None, x |-> None]
    /\ op = Op("none", NoKey, None, 0)
    /\ Quiet

NextIndex == \E key \in RowsKeys : RowsGetItem(key)

SpecIndex == InitIndex /\ [][NextIndex]_vars

(* ------------------------------- claims ------------------------------- *)

EndsWith(s, suffix) ==
    /\ Len(s) >= Len(suffix)
    /\ SubSeq(s, Len(s) - Len(suffix) + 1, Len(s)) = suffix

RowGens == {g \in 1..Len(gens) : gens[g].kind = "row"}
AllGens == {g \in 1..Len(gens) : gens[g].kind = "all"}
PageGens == {g \in 1..Len(gens) : gens[g].kind = "page"}

\* the record an item of a row sequence stands for
ItemRecord(item) == IF item.t = "BoundRow" THEN item.v.record ELSE item.v

\* the hook the last row[key] called raised a TypeError
HookRaisedTypeError ==
    /\ op.name = "row.getitem"
    /\ Len(calls) = 1
    /\ calls[1].outcome.kind = "raise"
    /\ calls[1].outcome.exc = "TypeError"

\* the hook the last row[key] called rejected a keyword of the context
HookRejectedKeyword ==
    /\ op.name = "row.getitem"
    /\ Len(calls) = 1
    /\ ~(KwNames \subseteq calls[1].hook.accepts)

\* C1: when the render hook raises a TypeError, whatever its message,
\* row[name] raises too; it never returns a value after the hook raised.
C1_NoErrorSwallowed == HookRaisedTypeError => result.kind = "raise"

\* C2: when the hook rejects a keyword of the context, row[name] raises a
\* TypeError whose message ends with the hint naming the responsible hook:
\* the table's class and render_<name> when the table defines that
\* override, the column's class and render when it does not.
C2_DescriptiveError ==
    HookRejectedKeyword =>
        LET bc == calls[1].kwargs.bound_column
            hint == IF HasAttr(table, <<"render_", bc.name>>)
                    THEN <<"Did you forget to add **kwargs to ", TableClass, ".",
                           "render_", bc.name, "() ?">>
                    ELSE <<"Did you forget to add **kwargs to ", bc.column.cls, ".",
                           "render", "() ?">>
        IN /\ result.kind = "raise"
           /\ result.exc = "TypeError"
           /\ EndsWith(result.msg, hint)

\* C3: item in row returns a boolean for every item: for a string, whether
\* it names a column of the table; for any other item, whether it equals
\* one of the values the row renders.
C3_Membership ==
    op.name = "row.contains" =>
        /\ result.kind = "return"
        /\ PyEq(result.val,
                PyBool(IF op.item.t = "str" THEN op.item.v \in ColumnNames(table)
                       ELSE \E v \in RenderedValues(table, row) : PyEq(op.item, v)))

\* the bound column of a name of the table
ColumnNamed(name) ==
    CHOOSE c \in {table.columns[i] : i \in 1..Len(table.columns)} : c.name = name

\* the last operation was row[name] for a name among the table's columns
GotItemByName ==
    /\ op.name = "row.getitem"
    /\ op.key.kind = "str"
    /\ op.key.s \in ColumnNames(table)

\* C4: for a name among the table's columns, row[name] calls exactly one
\* hook, the table's render_<name> when it has one and the column's render
\* otherwise, with exactly the six context values, value being the record's
\* raw value unless that is None and the column's default when it is; what
\* the hook returns is what row[name] returns.
C4_GetItemByName ==
    GotItemByName =>
        LET bc == ColumnNamed(op.key.s)
            raw == row[bc.accessor]
            v == IF PyEq(raw, None) THEN bc.default ELSE raw
            attr == <<"render_", op.key.s>>
            hook == IF attr \in DOMAIN table.attrs THEN table.attrs[attr]
                    ELSE bc.column.render
        IN /\ Len(calls) = 1
           /\ calls[1].hook = hook
           /\ DOMAIN calls[1].kwargs = KwNames
           /\ PyEq(calls[1].kwargs.value, v)
           /\ calls[1].kwargs.record = row
           /\ calls[1].kwargs.column = bc.column
           /\ calls[1].kwargs.bound_column = bc
           /\ PyEq(calls[1].kwargs.bound_row, BoundRow(TableId, row))
           /\ calls[1].kwargs.table = TableId
           /\ (calls[1].outcome.kind = "return" =>
                  /\ result.kind = "return"
                  /\ PyEq(result.val, calls[1].outcome.val)
                  /\ PyEq(result.val, Rendered(hook, calls[1].kwargs)))

\* a falsy raw value that is not None went to the table's override
\* unreplaced and the override's result came back
C4_Witness ==
    /\ GotItemByName
    /\ op.key.s = "a"
    /\ HasAttr(table, <<"render_", "a">>)
    /\ PyEq(row.a, PyStr(""))
    /\ result.kind = "return"
    /\ result.val.t = "rendered"
    /\ PyEq(result.val.v.kw.value, PyStr(""))

\* C5: row[i] for 0 <= i < number of columns is the i-th element of
\* list(row); any other integer raises IndexError and a string that names
\* no column raises KeyError, and then no hook is called.
C5_IntegerIndexing ==
    op.name = "row.getitem" =>
        /\ (op.key.kind = "int" /\ 0 <= op.key.i /\ op.key.i < Len(table.columns)) =>
              \A g \in RowGens :
                  gens[g].status = "stopped" =>
                      /\ result.kind = "return"
                      /\ PyEq(result.val, gens[g].out[op.key.i + 1])
        /\ (op.key.kind = "int" /\ ~(0 <= op.key.i /\ op.key.i < Len(table.columns))) =>
              /\ result.kind = "raise"
              /\ result.exc = "IndexError"
              /\ calls = <<>>
        /\ (op.key.kind = "str" /\ op.key.s \notin ColumnNames(table)) =>
              /\ result.kind = "raise"
              /\ result.exc = "KeyError"
              /\ calls = <<>>

\* row[1] of a two-column row was read after list(row) was built
C5_Witness ==
    /\ op.name = "row.getitem"
    /\ op.key = IntKey(1)
    /\ Len(table.columns) = 2
    /\ \E g \in RowGens : gens[g].status = "stopped" /\ Len(gens[g].out) = 2
    /\ result.kind = "return"
    /\ result.val.t = "rendered"

\* C6: an iteration of a row yields the values row[name] of the columns in
\* column order, as many as the table has columns when it runs to its end,
\* and stops early only where row[name] raises; every iteration starts at
\* the first column, whatever other iterations of the row have done.
C6_RowIteration ==
    /\ \A g \in RowGens :
          LET gen == gens[g]
              cell(i) == BoundRow_getitem(table, row, StrKey(table.columns[i].name)).out
          IN /\ Len(gen.out) = gen.pos
             /\ gen.pos <= Len(table.columns)
             /\ \A i \in 1..Len(gen.out) :
                   cell(i).kind = "return" /\ PyEq(gen.out[i], cell(i).val)
             /\ gen.status = "stopped" => Len(gen.out) = Len(table.columns)
             /\ gen.status = "raised" => cell(gen.pos + 1).kind = "raise"
    /\ op.name = "row.iter" => gens[op.g] = Generator("row")

\* a second iteration ran to its end while the first one stays half way
C6_Witness ==
    /\ Len(table.columns) = 2
    /\ Len(gens) = 2
    /\ gens[1].kind = "row" /\ gens[1].status = "live" /\ Len(gens[1].out) = 1
    /\ gens[2].kind = "row" /\ gens[2].status = "stopped" /\ Len(gens[2].out) = 2

\* C7: every element of the iterable page() returns is a BoundRow of the
\* table and of the corresponding element of table.page.object_list.
C7_PageYieldsBoundRows ==
    \A g \in PageGens :
        \A i \in 1..Len(gens[g].out) :
            PyEq(gens[g].out[i], BoundRow(TableId, table.page.object_list[i]))

\* C8: page() returns None exactly when the table has no page attribute;
\* otherwise it returns an iterator with one item per element of
\* table.page.object_list, in that order, so none for an empty page.
C8_PageOrNone ==
    /\ op.name = "rows.page" =>
          /\ result.kind = "return"
          /\ PyEq(result.val, None) <=> ~table.page.has
          /\ table.page.has =>
                /\ result.val.t = "iterator"
                /\ gens[result.val.v] = Generator("page")
    /\ \A g \in PageGens :
          LET gen == gens[g]
          IN /\ table.page.has
             /\ Len(gen.out) = gen.pos
             /\ gen.pos <= Len(table.page.object_list)
             /\ \A i \in 1..Len(gen.out) :
                   ItemRecord(gen.out[i]) = table.page.object_list[i]
             /\ gen.status = "stopped" => Len(gen.out) = Len(table.page.object_list)
             /\ gen.status # "raised"

\* the iterator of an empty page ran to its end
C8_Witness ==
    /\ table.page.has
    /\ table.page.object_list = <<>>
    /\ table.data # <<>>
    /\ \E g \in PageGens : gens[g].status = "stopped" /\ gens[g].out = <<>>

\* C9: rows[slice] is a list with one BoundRow per record table.data[slice]
\* selects, in that order; rows[int] is the BoundRow of table.data[int], or
\* the data source's own error; any other key raises TypeError without a
\* read of the data source.
C9_RowsIndexing ==
    op.name = "rows.getitem" =>
        LET d == DataGetItem(table.data, op.key)
        IN IF op.key.kind = "slice"
           THEN /\ result.kind = "return"
                /\ result.val.t = "list"
                /\ Len(result.val.v) = Len(d.val.v)
                /\ \A i \in 1..Len(d.val.v) :
                      PyEq(result.val.v[i], BoundRow(TableId, d.val.v[i]))
                /\ calls = <<op.key>>
           ELSE IF op.key.kind = "int"
           THEN /\ d.kind = "raise" => result = d
                /\ d.kind = "return" =>
                      /\ result.kind = "return"
                      /\ PyEq(result.val, BoundRow(TableId, d.val.v))
           ELSE /\ result.kind = "raise"
                /\ result.exc = "TypeError"
                /\ calls = <<>>

\* a backwards slice selected two different records
C9_Witness ==
    /\ op.name = "rows.getitem"
    /\ op.key.kind = "slice"
    /\ op.key.step = Idx(-1)
    /\ result.kind = "return"
    /\ Len(result.val.v) = 2
    /\ result.val.v[1] # result.val.v[2]

\* C10: an iteration of the rows yields the rows rows[0], rows[1], ... in
\* order, len(table.data) of them when it runs to its end, and starts at
\* the first record whatever other iterations have done; len(rows) and
\* rows.count() are len(table.data); the table stays what it was.
C10_RowsIteration ==
    /\ \A g \in AllGens :
          LET gen == gens[g]
              ith(i) == BoundRows_getitem(table, RowsKey("int", i - 1, NoneIdx, NoneIdx, NoneIdx)).out
          IN /\ Len(gen.out) = gen.pos
             /\ gen.pos <= Len(table.data)
             /\ \A i \in 1..Len(gen.out) :
                   ith(i).kind = "return" /\ PyEq(gen.out[i], ith(i).val)
             /\ gen.status = "stopped" => Len(gen.out) = Len(table.data)
             /\ gen.status # "raised"
    /\ op.name \in {"rows.all", "rows.iter"} => gens[op.g] = Generator("all")
    /\ op.name \in {"rows.len", "rows.count"} =>
          result.kind = "return" /\ PyEq(result.val, PyInt(Len(table.data)))
    /\ table = table0

\* a second iteration ran to its end while the first one stays half way
C10_Witness ==
    /\ Len(table.data) = 2
    /\ Len(gens) = 2
    /\ gens[1].kind = "all" /\ gens[1].status = "live" /\ Len(gens[1].out) = 1
    /\ gens[2].kind = "all" /\ gens[2].status = "stopped" /\ Len(gens[2].out) = 2

====
